---- MODULE Spec2Model ----
(* Model of the RAG pipeline of src/rag_pipeline.py and of the request    *)
(* handler of src/app.py.  A Python str is a sequence of one-character    *)
(* strings; a Python list is a sequence; a raised exception is an outcome *)
(* record carrying the exception's type and message.                      *)
EXTENDS Integers, Sequences, FiniteSets, TLC

VARIABLES
    chunker,        \* the TextChunker object: chunk_size, overlap
    chunkCall,      \* the last call of TextChunker.chunk and its outcome
    vector_store,   \* the VectorStore object: texts, tokenizer
    searchCall,     \* the last call of VectorStore.search and its outcome
    genCall,        \* the last call of RAGPipeline.generate_response
    components,     \* app.py's module-level components dictionary
    response,       \* the last response of handle_query
    calls,          \* which query-time steps have ever run
    environment     \* what the process finds at startup: the PDF, the models

vars == <<chunker, chunkCall, vector_store, searchCall, genCall,
          components, response, calls, environment>>

(***************************************************************************)
(* Bounds of the model.                                                    *)
(***************************************************************************)
MaxTextLen == 5
MaxChunkSize == 4
MaxOverlap == 4
MaxStored == 4
MaxVector == 1
MaxTokenLen == 2
MaxBudget == 6
MaxPieces == 2

(***************************************************************************)
(* Python string and list primitives.                                      *)
(***************************************************************************)
Min(a, b) == IF a < b THEN a ELSE b

Max(a, b) == IF a > b THEN a ELSE b

\* str.isspace for the characters the model uses
IsSpace(ch) == ch \in {" ", "\n"}

\* the last index of the word that starts at index i
WordEnd(text, i) ==
    CHOOSE j \in i..Len(text) :
        /\ \A k \in i..j : ~IsSpace(text[k])
        /\ (j = Len(text) \/ IsSpace(text[j + 1]))

IsWordStart(text, i) ==
    ~IsSpace(text[i]) /\ (i = 1 \/ IsSpace(text[i - 1]))

\* the words that start at an index of lo..hi, in order
RECURSIVE WordsIn(_, _, _)
WordsIn(text, lo, hi) ==
    IF lo > hi THEN <<>>
    ELSE IF lo = hi
         THEN IF IsWordStart(text, lo)
              THEN <<SubSeq(text, lo, WordEnd(text, lo))>>
              ELSE <<>>
         ELSE LET mid == (lo + hi) \div 2
              IN  WordsIn(text, lo, mid) \o WordsIn(text, mid + 1, hi)

\* text.split(): the maximal runs of non-whitespace characters
split(text) == WordsIn(text, 1, Len(text))

RECURSIVE JoinRange(_, _, _, _)
JoinRange(sep, items, lo, hi) ==
    IF lo > hi THEN <<>>
    ELSE IF lo = hi THEN items[lo]
    ELSE LET mid == (lo + hi) \div 2
         IN  JoinRange(sep, items, lo, mid) \o sep
                 \o JoinRange(sep, items, mid + 1, hi)

\* sep.join(items)
join(sep, items) == JoinRange(sep, items, 1, Len(items))

\* items[i:j] for 0 <= i and 0 <= j
slice(items, i, j) == SubSeq(items, i + 1, Min(j, Len(items)))

\* len(range(start, stop, step)) for step # 0
RangeLen(start, stop, step) ==
    IF step > 0
    THEN IF stop > start THEN (stop - start + step - 1) \div step ELSE 0
    ELSE IF start > stop THEN (start - stop - step - 1) \div (0 - step) ELSE 0

\* list(range(start, stop, step)) for step # 0
range(start, stop, step) ==
    [k \in 1..RangeLen(start, stop, step) |-> start + (k - 1) * step]

Return(value) == [outcome |-> "return", value |-> value, message |-> ""]

Raise(type, message) == [outcome |-> type, value |-> <<>>, message |-> message]

(***************************************************************************)
(* TextChunker                                                             *)
(***************************************************************************)
\* TextChunker.__init__: chunk_size=350, overlap=100
DefaultChunkSize == 350

DefaultOverlap == 100

TextChunker(chunk_size, overlap) ==
    [chunk_size |-> chunk_size, overlap |-> overlap]

\* TextChunker.chunk(text)
chunk(self, text) ==
    IF text = <<>>
    THEN Raise("ValueError", "Input text cannot be empty")
    ELSE LET words == split(text)
             step  == self.chunk_size - self.overlap
         IN  IF step = 0
             THEN Raise("ValueError", "range() arg 3 must not be zero")
             ELSE LET starts == range(0, Len(words), step)
                  IN  Return([k \in 1..Len(starts) |->
                                 join(<<" ">>, slice(words, starts[k],
                                                     starts[k] + self.chunk_size))])

(***************************************************************************)
(* VectorStore.  An embedding is a direction Vectors; the cosine distance  *)
(* of two directions grows with their difference.  A tokenizer is None or  *)
(* a table of the token count of every text it is asked about.  Indices    *)
(* are 1-based.                                                            *)
(***************************************************************************)
NoTokenizer == [present |-> FALSE, length |-> <<>>]

Tokenizer(length) == [present |-> TRUE, length |-> length]

\* len(tokenizer.tokenize(text))
TokenLen(tokenizer, text) == tokenizer.length[text]

\* VectorStore(tokenizer)
VectorStore(tokenizer) ==
    [fitted |-> FALSE, embeddings |-> <<>>, texts |-> <<>>,
     tokenizer |-> tokenizer]

\* VectorStore.store(embeddings, texts)
store(self, embeddings, texts) ==
    [self EXCEPT !.fitted = TRUE, !.embeddings = embeddings, !.texts = texts]

\* NearestNeighbors(n_neighbors=3, metric='cosine')
n_neighbors == 3

CosineDistance(u, v) == IF u >= v THEN u - v ELSE v - u

\* the index lists nn.kneighbors([query_embedding]) may return: the
\* n_neighbors nearest stored embeddings by ascending distance, equally
\* distant ones in any order
NeighborLists(self, query_embedding) ==
    LET n    == Len(self.embeddings)
        d(i) == CosineDistance(query_embedding, self.embeddings[i])
    IN  {ind \in [1..n_neighbors -> 1..n] :
            /\ \A a, b \in 1..n_neighbors : a < b =>
                   ind[a] # ind[b] /\ d(ind[a]) <= d(ind[b])
            /\ \A j \in 1..n :
                   (\A a \in 1..n_neighbors : ind[a] # j) =>
                       d(j) >= d(ind[n_neighbors])}

\* the outcome of nn.kneighbors when it does not return
kneighborsError(self) ==
    IF ~self.fitted
    THEN Raise("NotFittedError", "This NearestNeighbors instance is not fitted yet")
    ELSE IF Len(self.embeddings) < n_neighbors
    THEN Raise("ValueError", "Expected n_neighbors <= n_samples_fit")
    ELSE Return(<<>>)

\* the loop with the over-budget chunk skipped instead of ending the loop
RECURSIVE SelectChunksSkipping(_, _, _, _, _, _)
SelectChunksSkipping(self, indices, pos, selected_chunks, current_length, max_tokens) ==
    IF pos > Len(indices) THEN selected_chunks
    ELSE LET chunk_text   == self.texts[indices[pos]]
             chunk_length == TokenLen(self.tokenizer, chunk_text)
         IN  IF current_length + chunk_length > max_tokens
             THEN SelectChunksSkipping(self, indices, pos + 1, selected_chunks,
                                       current_length, max_tokens)
             ELSE SelectChunksSkipping(self, indices, pos + 1,
                                       Append(selected_chunks, chunk_text),
                                       current_length + chunk_length,
                                       max_tokens)

\* the for loop of VectorStore.search from position pos of indices on
RECURSIVE SelectChunks(_, _, _, _, _, _)
SelectChunks(self, indices, pos, selected_chunks, current_length, max_tokens) ==
    IF pos > Len(indices) THEN selected_chunks
    ELSE LET chunk_text   == self.texts[indices[pos]]
             chunk_length == TokenLen(self.tokenizer, chunk_text)
         IN  IF current_length + chunk_length > max_tokens
             THEN selected_chunks
             ELSE SelectChunks(self, indices, pos + 1,
                               Append(selected_chunks, chunk_text),
                               current_length + chunk_length, max_tokens)

\* VectorStore.search(query_embedding, max_tokens), given the indices that
\* kneighbors returned
search(self, indices, max_tokens) ==
    IF ~self.tokenizer.present
    THEN [k \in 1..Len(slice(indices, 0, 3)) |-> self.texts[indices[k]]]
    ELSE SelectChunks(self, indices, 1, <<>>, 0, max_tokens)

\* max_tokens=500
DefaultMaxTokens == 500

(***************************************************************************)
(* More string primitives.                                                 *)
(***************************************************************************)
\* sep occurs in s at index i
OccursAt(s, sep, i) ==
    /\ i + Len(sep) - 1 <= Len(s)
    /\ \A k \in 1..Len(sep) : s[i + k - 1] = sep[k]

\* s.find(sep, from) for a non-empty sep, 1-based; 0 when sep does not
\* occur: the least of the indices that hold sep's first character and
\* where sep occurs
find(s, sep, from) ==
    LET candidates  == {i \in from..Len(s) : s[i] = sep[1]}
        occurrences == {i \in candidates : OccursAt(s, sep, i)}
    IN  IF occurrences = {} THEN 0
        ELSE CHOOSE i \in occurrences : \A j \in occurrences : i <= j

\* s[from:].split(sep)
RECURSIVE SplitFrom(_, _, _)
SplitFrom(s, sep, from) ==
    LET i == find(s, sep, from)
    IN  IF i = 0 THEN <<SubSeq(s, from, Len(s))>>
        ELSE <<SubSeq(s, from, i - 1)>> \o SplitFrom(s, sep, i + Len(sep))

\* s.split(sep)
split_on(s, sep) == SplitFrom(s, sep, 1)

\* s.strip()
strip(s) ==
    IF \A i \in 1..Len(s) : IsSpace(s[i]) THEN <<>>
    ELSE SubSeq(s,
                CHOOSE i \in 1..Len(s) :
                    ~IsSpace(s[i]) /\ \A j \in 1..(i - 1) : IsSpace(s[j]),
                CHOOSE i \in 1..Len(s) :
                    ~IsSpace(s[i]) /\ \A j \in (i + 1)..Len(s) : IsSpace(s[j]))

LowerOf ==
    [A |-> "a", B |-> "b", C |-> "c", D |-> "d", E |-> "e", F |-> "f",
     G |-> "g", H |-> "h", I |-> "i", J |-> "j", K |-> "k", L |-> "l",
     M |-> "m", N |-> "n", O |-> "o", P |-> "p", Q |-> "q", R |-> "r",
     S |-> "s", T |-> "t", U |-> "u", V |-> "v", W |-> "w", X |-> "x",
     Y |-> "y", Z |-> "z"]

\* s.lower()
lower(s) ==
    [i \in 1..Len(s) |-> IF s[i] \in DOMAIN LowerOf THEN LowerOf[s[i]] ELSE s[i]]

\* s.startswith(prefixes) for a tuple of prefixes
startswith(s, prefixes) ==
    \E k \in 1..Len(prefixes) :
        /\ Len(s) >= Len(prefixes[k])
        /\ SubSeq(s, 1, Len(prefixes[k])) = prefixes[k]

(***************************************************************************)
(* RAGPipeline.generate_response.  The text-generation model is a black    *)
(* box: a call raises, or returns the prompt followed by a continuation,   *)
(* or returns a text of its own that need not hold the prompt.             *)
(***************************************************************************)
\* "Answer the question based on the context below. If you don't know the
\* answer, say 'I don't know'.\n\n"
Instruction ==
    <<"A", "n", "s", "w", "e", "r", " ", "t", "h", "e", " ", "q", "u",
      "e", "s", "t", "i", "o", "n", " ", "b", "a", "s", "e", "d", " ",
      "o", "n", " ", "t", "h", "e", " ", "c", "o", "n", "t", "e", "x",
      "t", " ", "b", "e", "l", "o", "w", ".", " ", "I", "f", " ", "y",
      "o", "u", " ", "d", "o", "n", "'", "t", " ", "k", "n", "o", "w",
      " ", "t", "h", "e", " ", "a", "n", "s", "w", "e", "r", ",", " ",
      "s", "a", "y", " ", "'", "I", " ", "d", "o", "n", "'", "t", " ",
      "k", "n", "o", "w", "'", ".", "\n", "\n">>

\* "Answer:"
AnswerCue == <<"A", "n", "s", "w", "e", "r", ":">>

\* the prompt of generate_response
Prompt(query, context) ==
    Instruction
        \o <<"C", "o", "n", "t", "e", "x", "t", ":", " ">> \o context \o <<"\n", "\n">>
        \o <<"Q", "u", "e", "s", "t", "i", "o", "n", ":", " ">> \o query \o <<"\n">>
        \o AnswerCue

\* ("the question is", "the word", "what does")
BlockedOpenings ==
    <<<<"t", "h", "e", " ", "q", "u", "e", "s", "t", "i", "o", "n", " ",
        "i", "s">>,
      <<"t", "h", "e", " ", "w", "o", "r", "d">>,
      <<"w", "h", "a", "t", " ", "d", "o", "e", "s">>>>

\* "I don't know"
DontKnow == <<"I", " ", "d", "o", "n", "'", "t", " ", "k", "n", "o", "w">>

\* "I couldn't generate a response. Please try a more specific question."
FallbackMessage ==
    <<"I", " ", "c", "o", "u", "l", "d", "n", "'", "t", " ", "g", "e",
      "n", "e", "r", "a", "t", "e", " ", "a", " ", "r", "e", "s", "p",
      "o", "n", "s", "e", ".", " ", "P", "l", "e", "a", "s", "e", " ",
      "t", "r", "y", " ", "a", " ", "m", "o", "r", "e", " ", "s", "p",
      "e", "c", "i", "f", "i", "c", " ", "q", "u", "e", "s", "t", "i",
      "o", "n", ".">>

\* self.generator(prompt, **self.generation_config)[0]['generated_text']
generator(prompt, model) ==
    IF model.kind = "raise" THEN Raise("RuntimeError", "generation failed")
    ELSE IF model.kind = "full" THEN Return(prompt \o model.text)
    ELSE Return(model.text)

\* full_response.split("Answer:")[1].strip()
ExtractAnswer(full_response) ==
    LET parts == split_on(full_response, AnswerCue)
    IN  IF Len(parts) < 2
        THEN Raise("IndexError", "list index out of range")
        ELSE Return(strip(parts[2]))

\* the filter with the comparison left case-sensitive
PostFilterCaseSensitive(answer) ==
    IF startswith(answer, BlockedOpenings) THEN DontKnow ELSE answer

\* the filter for bad generations
PostFilter(answer) ==
    IF startswith(lower(answer), BlockedOpenings) THEN DontKnow ELSE answer

\* the body of the try block of generate_response
TryGenerate(query, context, model) ==
    LET outputs == generator(Prompt(query, context), model)
    IN  IF outputs.outcome # "return" THEN outputs
        ELSE LET answer == ExtractAnswer(outputs.value)
             IN  IF answer.outcome # "return" THEN answer
                 ELSE Return(PostFilter(answer.value))

\* generate_response without its except clause
generate_response_unguarded(query, context, model) ==
    TryGenerate(query, context, model)

\* RAGPipeline.generate_response(query, context)
generate_response(query, context, model) ==
    LET r == TryGenerate(query, context, model)
    IN  IF r.outcome # "return" THEN Return(FallbackMessage) ELSE r

(***************************************************************************)
(* Inputs of the chunker.                                                  *)
(***************************************************************************)
Chars == {"a", "b", " "}

RECURSIVE StringsUpTo(_, _)
StringsUpTo(alphabet, n) ==
    IF n = 0 THEN {<<>>}
    ELSE LET shorter == StringsUpTo(alphabet, n - 1)
         IN  shorter \cup {Append(s, ch) : s \in shorter, ch \in alphabet}

\* "A B C D E F G H"
ScenarioDoc ==
    <<"A", " ", "B", " ", "C", " ", "D", " ", "E", " ", "F", " ", "G", " ",
      "H">>

\* "A B C D E F G"
SevenWordDoc == SubSeq(ScenarioDoc, 1, 13)

Texts == StringsUpTo(Chars, MaxTextLen) \cup {ScenarioDoc, SevenWordDoc}

ChunkSizes == 1..MaxChunkSize

Overlaps == 0..MaxOverlap

NoChunkCall == [text |-> <<>>, outcome |-> "none", chunks |-> <<>>, message |-> ""]

NoSearchCall ==
    [outcome |-> "none", query_embedding |-> 0, max_tokens |-> 0,
     indices |-> <<>>, chunks |-> <<>>, message |-> ""]

NoModel == [kind |-> "raise", text |-> <<>>]

NoGenCall ==
    [outcome |-> "none", query |-> <<>>, context |-> <<>>, model |-> NoModel,
     extracted |-> FALSE, answer |-> <<>>, result |-> <<>>]

NoComponents == [status |-> "none", message |-> "", chunks |-> <<>>]

NoResponse ==
    [status |-> 0, error |-> "", details |-> "", answer |-> <<>>,
     context |-> <<>>]

NoCalls == [embed |-> FALSE, search |-> FALSE, generate |-> FALSE]

NoEnvironment ==
    [pdf |-> [kind |-> "missing", pages |-> <<>>], embedder_loads |-> TRUE,
     llm_loads |-> TRUE]

(***************************************************************************)
(* The chunker on its own: a TextChunker and a text, chunked once.         *)
(***************************************************************************)
InitChunk ==
    /\ chunker \in {TextChunker(c, o) : c \in ChunkSizes, o \in Overlaps}
    /\ chunkCall \in {[NoChunkCall EXCEPT !.text = t] : t \in Texts}
    /\ vector_store = VectorStore(NoTokenizer)
    /\ searchCall = NoSearchCall
    /\ genCall = NoGenCall
    /\ components = NoComponents
    /\ response = NoResponse
    /\ calls = NoCalls
    /\ environment = NoEnvironment

\* chunker.chunk(text)
Chunk ==
    /\ chunkCall.outcome = "none"
    /\ LET r == chunk(chunker, chunkCall.text)
       IN  chunkCall' = [text |-> chunkCall.text, outcome |-> r.outcome,
                         chunks |-> r.value, message |-> r.message]
    /\ UNCHANGED <<chunker, vector_store, searchCall, genCall, components,
                   response, calls, environment>>

NextChunk == Chunk

SpecChunk == InitChunk /\ [][NextChunk]_vars

(***************************************************************************)
(* Claims about TextChunker.chunk, under SpecChunk.                        *)
(***************************************************************************)
ChunkDone == chunkCall.outcome # "none"

\* the number of whitespace-delimited words of the chunked document
TotalWords == Len(split(chunkCall.text))

CeilDiv(a, b) == (a + b - 1) \div b

\* ["A B C D", "C D E F", "E F G H"]
ScenarioChunks ==
    <<SubSeq(ScenarioDoc, 1, 7), SubSeq(ScenarioDoc, 5, 11),
      SubSeq(ScenarioDoc, 9, 15)>>

ValidConfig == 0 <= chunker.overlap /\ chunker.overlap < chunker.chunk_size

\* C1: a document of N >= 1 words chunked with 0 <= overlap < chunk_size
\* yields exactly ceil(max(N - overlap, 1) / (chunk_size - overlap)) chunks,
\* and "A B C D E F G H" with chunk_size 4 and overlap 2 yields exactly
\* ["A B C D", "C D E F", "E F G H"].
C1_ChunkCount ==
    (ChunkDone /\ TotalWords >= 1 /\ ValidConfig) =>
        /\ chunkCall.outcome = "return"
        /\ Len(chunkCall.chunks) =
               CeilDiv(Max(TotalWords - chunker.overlap, 1),
                       chunker.chunk_size - chunker.overlap)
        /\ (chunkCall.text = ScenarioDoc /\ chunker = TextChunker(4, 2)) =>
               chunkCall.chunks = ScenarioChunks

\* chunk cur begins with exactly the last o words of chunk prev
RepeatsTail(prev, cur, o) ==
    LET p == split(prev)
        c == split(cur)
    IN  /\ Len(p) >= o
        /\ Len(c) >= o
        /\ SubSeq(c, 1, o) = SubSeq(p, Len(p) - o + 1, Len(p))

\* C2: with 0 <= overlap < chunk_size, every chunk but the first begins with
\* exactly the last overlap words of the chunk before it, also when that
\* chunk is a short trailing one.
C2_OverlapRepeated ==
    (ChunkDone /\ ValidConfig /\ chunkCall.outcome = "return") =>
        \A k \in 2..Len(chunkCall.chunks) :
            RepeatsTail(chunkCall.chunks[k - 1], chunkCall.chunks[k],
                        chunker.overlap)

\* C3: chunking a non-empty text with overlap >= chunk_size ends in an
\* error; it never returns a chunk list.
C3_BadOverlapFails ==
    (ChunkDone /\ chunkCall.text # <<>>
        /\ chunker.overlap >= chunker.chunk_size) =>
        chunkCall.outcome \notin {"none", "return"}

\* C4: chunking a document of 0 words (the empty string or only whitespace)
\* fails with the invalid-input error; it never returns a chunk list.
C4_NoWordsFails ==
    (ChunkDone /\ TotalWords = 0) =>
        /\ chunkCall.outcome = "ValueError"
        /\ chunkCall.message = "Input text cannot be empty"

(***************************************************************************)
(* The vector store on its own: constructed with or without a tokenizer,   *)
(* filled once, searched once.                                             *)
(***************************************************************************)
Vectors == 0..MaxVector

\* "a" and "a b"
ChunkPool == {<<"a">>, <<"a", " ", "b">>}

Tokenizers ==
    {NoTokenizer} \cup {Tokenizer(t) : t \in [ChunkPool -> 1..MaxTokenLen]}

InitSearch ==
    /\ chunker = TextChunker(DefaultChunkSize, DefaultOverlap)
    /\ chunkCall = NoChunkCall
    /\ vector_store \in {VectorStore(t) : t \in Tokenizers}
    /\ searchCall = NoSearchCall
    /\ genCall = NoGenCall
    /\ components = NoComponents
    /\ response = NoResponse
    /\ calls = NoCalls
    /\ environment = NoEnvironment

\* vector_store.store(embeddings, texts)
Store(embeddings, texts) ==
    /\ ~vector_store.fitted
    /\ searchCall.outcome = "none"
    /\ vector_store' = store(vector_store, embeddings, texts)
    /\ UNCHANGED <<chunker, chunkCall, searchCall, genCall, components,
                   response, calls, environment>>

\* vector_store.search(query_embedding, max_tokens)
Search(query_embedding, max_tokens) ==
    /\ searchCall.outcome = "none"
    /\ LET err == kneighborsError(vector_store)
       IN  IF err.outcome # "return"
           THEN searchCall' =
                    [outcome |-> err.outcome,
                     query_embedding |-> query_embedding,
                     max_tokens |-> max_tokens, indices |-> <<>>,
                     chunks |-> <<>>, message |-> err.message]
           ELSE \E indices \in NeighborLists(vector_store, query_embedding) :
                    searchCall' =
                        [outcome |-> "return",
                         query_embedding |-> query_embedding,
                         max_tokens |-> max_tokens, indices |-> indices,
                         chunks |-> search(vector_store, indices, max_tokens),
                         message |-> ""]
    /\ UNCHANGED <<chunker, chunkCall, vector_store, genCall, components,
                   response, calls, environment>>

NextSearch ==
    \/ \E n \in 1..MaxStored :
           \E embeddings \in [1..n -> Vectors], texts \in [1..n -> ChunkPool] :
               Store(embeddings, texts)
    \/ \E query_embedding \in Vectors, max_tokens \in 0..MaxBudget :
           Search(query_embedding, max_tokens)

SpecSearch == InitSearch /\ [][NextSearch]_vars

RECURSIVE SumTokens(_, _)
SumTokens(tokenizer, texts) ==
    IF texts = <<>> THEN 0
    ELSE TokenLen(tokenizer, Head(texts)) + SumTokens(tokenizer, Tail(texts))

\* C5: with a tokenizer configured, search returns a prefix of the
\* distance-ordered neighbour list whose summed token count is at most
\* max_tokens; it holds at most 3 chunks, and fewer than 3 exactly when
\* adding the next neighbour in distance order would exceed the budget.
C5_BudgetedPrefix ==
    (searchCall.outcome = "return" /\ vector_store.tokenizer.present) =>
        LET m   == Len(searchCall.chunks)
            ind == searchCall.indices
            sum == SumTokens(vector_store.tokenizer, searchCall.chunks)
        IN  /\ m <= n_neighbors
            /\ m <= Len(ind)
            /\ searchCall.chunks = [k \in 1..m |-> vector_store.texts[ind[k]]]
            /\ sum <= searchCall.max_tokens
            /\ (m < n_neighbors) <=>
                   /\ m < Len(ind)
                   /\ sum + TokenLen(vector_store.tokenizer,
                                     vector_store.texts[ind[m + 1]])
                          > searchCall.max_tokens

\* a budgeted search that stopped after one chunk although the third
\* neighbour alone would still have fitted
C5_Witness ==
    /\ searchCall.outcome = "return"
    /\ vector_store.tokenizer.present
    /\ Len(searchCall.chunks) = 1
    /\ SumTokens(vector_store.tokenizer, searchCall.chunks)
           + TokenLen(vector_store.tokenizer,
                      vector_store.texts[searchCall.indices[3]])
           <= searchCall.max_tokens

(***************************************************************************)
(* The answer generator on its own: a question, a context and a behaviour  *)
(* of the model, answered once.                                            *)
(***************************************************************************)
\* " ", "\n", "Answer:", "The question is", "the word", "What does",
\* "Paris", "y"
Pieces ==
    {<<" ">>, <<"\n">>, AnswerCue,
     <<"T", "h", "e", " ", "q", "u", "e", "s", "t", "i", "o", "n", " ",
      "i", "s">>,
     <<"t", "h", "e", " ", "w", "o", "r", "d">>,
     <<"W", "h", "a", "t", " ", "d", "o", "e", "s">>,
     <<"P", "a", "r", "i", "s">>, <<"y">>}

\* the concatenations of at most n pieces
RECURSIVE PiecesUpTo(_)
PiecesUpTo(n) ==
    IF n = 0 THEN {<<>>}
    ELSE LET shorter == PiecesUpTo(n - 1)
         IN  shorter \cup {s \o p : s \in shorter, p \in Pieces}

\* "", "Why?", "Answer:"
Questions == {<<>>, <<"W", "h", "y", "?">>, AnswerCue}

\* "", "Paris", "Answer: Paris", "the word"
Contexts ==
    {<<>>, <<"P", "a", "r", "i", "s">>,
     <<"A", "n", "s", "w", "e", "r", ":", " ", "P", "a", "r", "i", "s">>,
     <<"t", "h", "e", " ", "w", "o", "r", "d">>}

Models ==
    {[kind |-> "raise", text |-> <<>>]}
        \cup {[kind |-> k, text |-> t] :
                 k \in {"full", "bare"}, t \in PiecesUpTo(MaxPieces)}

\* the record of a call of generate_response that ended as r
GenCallOf(query, context, model, r) ==
    [outcome |-> r.outcome, query |-> query, context |-> context,
     model |-> model, extracted |-> FALSE, answer |-> <<>>,
     result |-> r.value]

InitGen ==
    /\ chunker = TextChunker(DefaultChunkSize, DefaultOverlap)
    /\ chunkCall = NoChunkCall
    /\ vector_store = VectorStore(NoTokenizer)
    /\ searchCall = NoSearchCall
    /\ genCall \in {[NoGenCall EXCEPT !.query = q, !.context = c, !.model = m] :
                       q \in Questions, c \in Contexts, m \in Models}
    /\ components = NoComponents
    /\ response = NoResponse
    /\ calls = NoCalls
    /\ environment = NoEnvironment

\* rag.generate_response(query, context)
Generate ==
    /\ genCall.outcome = "none"
    /\ LET outputs == generator(Prompt(genCall.query, genCall.context),
                                genCall.model)
           answer  == IF outputs.outcome = "return"
                      THEN ExtractAnswer(outputs.value)
                      ELSE outputs
           r       == generate_response(genCall.query, genCall.context,
                                        genCall.model)
       IN  genCall' =
               [GenCallOf(genCall.query, genCall.context, genCall.model, r)
                    EXCEPT !.extracted = answer.outcome = "return",
                           !.answer = answer.value]
    /\ UNCHANGED <<chunker, chunkCall, vector_store, searchCall, components,
                   response, calls, environment>>

NextGen == Generate

SpecGen == InitGen /\ [][NextGen]_vars

\* C8: when the extracted answer, lower-cased, begins with "the question
\* is", "the word" or "what does", generate_response returns exactly
\* "I don't know"; every other extracted answer is returned unchanged.
C8_BlockedOpenings ==
    (genCall.outcome # "none" /\ genCall.extracted) =>
        /\ genCall.outcome = "return"
        /\ genCall.result =
               IF \E k \in 1..Len(BlockedOpenings) :
                      /\ Len(genCall.answer) >= Len(BlockedOpenings[k])
                      /\ \A i \in 1..Len(BlockedOpenings[k]) :
                             lower(<<genCall.answer[i]>>)
                                 = <<BlockedOpenings[k][i]>>
               THEN DontKnow
               ELSE genCall.answer

\* an answer "The question is ..." with a capital letter, replaced
C8_Witness ==
    /\ genCall.outcome = "return"
    /\ genCall.extracted
    /\ Len(genCall.answer) > 15
    /\ SubSeq(genCall.answer, 1, 15) =
           <<"T", "h", "e", " ", "q", "u", "e", "s", "t", "i", "o", "n", " ",
           "i", "s">>
    /\ genCall.result = DontKnow

\* C9: the extracted answer is everything that follows the prompt's
\* "Answer:" cue in the model's output, whitespace-trimmed, also when the
\* context, the question or the continuation hold "Answer:" themselves.
C9_AnswerAfterCue ==
    (genCall.outcome # "none" /\ genCall.model.kind = "full") =>
        /\ genCall.extracted
        /\ genCall.answer = strip(genCall.model.text)

(***************************************************************************)
(* PDFLoader and the startup of app.py.  The PDF file is missing, is       *)
(* unreadable, or holds pages of text.                                     *)
(***************************************************************************)
\* CONFIG["pdf_path"] is "document.pdf"
\* PDFLoader(CONFIG["pdf_path"]).load()
load(pdf) ==
    IF pdf.kind = "missing"
    THEN Raise("FileNotFoundError", "PDF file not found at document.pdf")
    ELSE IF pdf.kind = "unreadable"
    THEN Raise("RuntimeError", "Failed to load PDF: EOF marker not found")
    ELSE Return(join(<<" ">>, pdf.pages))

Failed(message) == [status |-> "error", message |-> message, chunks |-> <<>>]

Ready(chunks) == [status |-> "ready", message |-> "", chunks |-> chunks]

\* the try block of initialize_components up to the embedding of the
\* chunks: the chunks, or the exception that ends it
LoadAndChunk(env) ==
    LET loaded == load(env.pdf)
    IN  IF loaded.outcome # "return" THEN loaded
        ELSE IF strip(loaded.value) = <<>>
        THEN Raise("ValueError", "Extracted text is empty - check PDF content")
        ELSE LET chunked == chunk(TextChunker(DefaultChunkSize, DefaultOverlap),
                                  loaded.value)
             IN  IF chunked.outcome # "return" THEN chunked
                 ELSE IF ~env.embedder_loads
                 THEN Raise("OSError", "embedding model cannot be loaded")
                 ELSE IF chunked.value = <<>>
                 THEN Raise("ValueError", "Input texts cannot be empty")
                 ELSE chunked

\* the embeddings the sentence-embedding model gives questions
ServiceVectors == {0, 1}

\* the embeddings it gives n chunks: the first chunk apart, or the last
\* one, or every second one
ChunkEmbeddings(n) ==
    {[k \in 1..n |-> IF k = 1 THEN 0 ELSE 1],
     [k \in 1..n |-> IF k = n THEN 1 ELSE 0],
     [k \in 1..n |-> k % 2]}

\* the test of readiness against a status that is never set
NotReadyMisspelt(comps) == comps.status = "not ready"

\* handle_query's test of readiness
NotReady(comps) == comps.status # "ready"

\* components = initialize_components()
Initialize ==
    /\ components.status = "none"
    /\ LET chunked == LoadAndChunk(environment)
       IN  IF chunked.outcome # "return"
           THEN /\ components' = Failed(chunked.message)
                /\ UNCHANGED vector_store
           ELSE \E embeddings \in ChunkEmbeddings(Len(chunked.value)) :
                    IF ~environment.llm_loads
                    THEN /\ components' =
                                Failed("language model cannot be loaded")
                         /\ UNCHANGED vector_store
                    ELSE /\ components' = Ready(chunked.value)
                         /\ vector_store' =
                                store(VectorStore(NoTokenizer), embeddings,
                                      chunked.value)
    /\ UNCHANGED <<chunker, chunkCall, searchCall, genCall, response, calls,
                   environment>>

Respond(status, error, details) ==
    [status |-> status, error |-> error, details |-> details,
     answer |-> <<>>, context |-> <<>>]

SearchCallOf(query_embedding, max_tokens, indices, r) ==
    [outcome |-> r.outcome, query_embedding |-> query_embedding,
     max_tokens |-> max_tokens, indices |-> indices, chunks |-> r.value,
     message |-> r.message]

\* handle_query(): data is the request's JSON body, query_embedding the
\* embedding of its question and model the behaviour of the
\* text-generation model
HandleQuery(data, query_embedding, model) ==
    /\ components.status # "none"
    /\ IF NotReady(components)
       THEN /\ response' = Respond(503, "System not ready", components.message)
            /\ UNCHANGED calls
            /\ UNCHANGED <<searchCall, genCall>>
       ELSE IF data.kind = "invalid"
       THEN /\ response' = Respond(500, "Processing failed",
                                   "400 Bad Request")
            /\ UNCHANGED calls
            /\ searchCall' = NoSearchCall
            /\ genCall' = NoGenCall
       ELSE IF data.kind # "question"
       THEN /\ response' = Respond(400, "Missing question parameter", "")
            /\ UNCHANGED calls
            /\ searchCall' = NoSearchCall
            /\ genCall' = NoGenCall
       ELSE LET err == kneighborsError(vector_store)
            IN  IF err.outcome # "return"
                THEN /\ response' = Respond(500, "Processing failed",
                                            err.message)
                     /\ calls' = [calls EXCEPT !.embed = TRUE,
                                               !.search = TRUE]
                     /\ searchCall' = SearchCallOf(query_embedding,
                                                   DefaultMaxTokens, <<>>, err)
                     /\ genCall' = NoGenCall
                ELSE \E indices \in NeighborLists(vector_store, query_embedding) :
                        LET relevant_chunks ==
                                search(vector_store, indices, DefaultMaxTokens)
                            context == join(<<"\n">>, relevant_chunks)
                            answer  == generate_response(data.question,
                                                         context, model)
                        IN  /\ searchCall' =
                                   SearchCallOf(query_embedding,
                                                DefaultMaxTokens, indices,
                                                Return(relevant_chunks))
                            /\ genCall' = GenCallOf(data.question, context,
                                                    model, answer)
                            /\ calls' = [calls EXCEPT !.embed = TRUE,
                                                      !.search = TRUE,
                                                      !.generate = TRUE]
                            /\ response' =
                                   IF answer.outcome = "return"
                                   THEN [status |-> 200, error |-> "",
                                         details |-> "",
                                         answer |-> answer.value,
                                         context |-> relevant_chunks]
                                   ELSE Respond(500, "Answer generation failed",
                                                answer.message)
    /\ UNCHANGED <<chunker, chunkCall, vector_store, components, environment>>

(***************************************************************************)
(* The service: startup, then queries.                                     *)
(***************************************************************************)
\* n words "w", single spaces between them
Document(n) == [i \in 1..(2 * n - 1) |-> IF i % 2 = 1 THEN "w" ELSE " "]

\* the pages of the PDFs the service is started on: no page, two pages
\* without text, one word, 501 words on two pages, 751 words
PageLists ==
    {<<>>, <<<<>>, <<>>>>, <<Document(1)>>, <<Document(300), Document(201)>>,
     <<Document(751)>>}

Environments ==
    {[pdf |-> pdf, embedder_loads |-> e, llm_loads |-> l] :
        pdf \in {[kind |-> "missing", pages |-> <<>>],
                 [kind |-> "unreadable", pages |-> <<>>]}
               \cup {[kind |-> "pages", pages |-> pages] : pages \in PageLists},
        e \in BOOLEAN, l \in BOOLEAN}

RequestBodies ==
    {[kind |-> k, question |-> <<>>] : k \in {"invalid", "none", "no_question"}}
        \cup {[kind |-> "question", question |-> <<"W", "h", "y", "?">>]}

\* a failure, "Paris" without the prompt, the prompt and " Paris"
ServiceModels ==
    {[kind |-> "raise", text |-> <<>>],
     [kind |-> "bare", text |-> <<"P", "a", "r", "i", "s">>],
     [kind |-> "full", text |-> <<" ", "P", "a", "r", "i", "s">>]}

Init ==
    /\ chunker = TextChunker(DefaultChunkSize, DefaultOverlap)
    /\ chunkCall = NoChunkCall
    /\ vector_store = VectorStore(NoTokenizer)
    /\ searchCall = NoSearchCall
    /\ genCall = NoGenCall
    /\ components = NoComponents
    /\ response = NoResponse
    /\ calls = NoCalls
    /\ environment \in Environments

Next ==
    \/ Initialize
    \/ \E data \in RequestBodies, query_embedding \in ServiceVectors,
          model \in ServiceModels :
           HandleQuery(data, query_embedding, model)

Spec == Init /\ [][Next]_vars

(***************************************************************************)
(* Claims about the service, under Spec.                                   *)
(***************************************************************************)
Started == components.status # "none"

\* the loader or the chunker fails at startup
LoaderFails ==
    \/ environment.pdf.kind \in {"missing", "unreadable"}
    \/ \A k \in 1..Len(environment.pdf.pages) :
           \A i \in 1..Len(environment.pdf.pages[k]) :
               environment.pdf.pages[k][i] = " "

\* the message of the error the startup then ends with
StartupMessage ==
    IF environment.pdf.kind = "missing"
    THEN "PDF file not found at document.pdf"
    ELSE IF environment.pdf.kind = "unreadable"
    THEN "Failed to load PDF: EOF marker not found"
    ELSE "Extracted text is empty - check PDF content"

\* C6: after a startup that failed in the loader or the chunker the
\* pipeline is not ready and stays so: every query, whatever its body, is
\* answered 503 with the startup error's message as details, and no
\* embedding, search or generation step ever runs.
C6_StartupFailureIsPermanent ==
    (Started /\ LoaderFails) =>
        /\ components.status = "error"
        /\ components.message = StartupMessage
        /\ ~calls.embed /\ ~calls.search /\ ~calls.generate
        /\ searchCall = NoSearchCall /\ genCall = NoGenCall
        /\ response.status # 0 =>
               /\ response.status = 503
               /\ response.details = StartupMessage

\* a query rejected after the PDF held only pages without text
C6_Witness ==
    /\ environment.pdf.kind = "pages"
    /\ Len(environment.pdf.pages) = 2
    /\ LoaderFails
    /\ components.status = "error"
    /\ response.status = 503
    /\ response.details = "Extracted text is empty - check PDF content"

\* the generation call of the last query raised, or its output holds no
\* "Answer:" to parse
GenerationFailed ==
    /\ genCall.outcome # "none"
    /\ \/ genCall.model.kind = "raise"
       \/ /\ genCall.model.kind = "bare"
          /\ \A i \in 1..Len(genCall.model.text) :
                 ~OccursAt(genCall.model.text, AnswerCue, i)

\* C7: when the generation call of a query fails, generate_response
\* returns the fixed fallback message and the handler answers 200 with
\* that message and the retrieved chunks, never with its
\* "Answer generation failed" error.
C7_GenerationFailureFallsBack ==
    GenerationFailed =>
        /\ genCall.outcome = "return"
        /\ genCall.result = FallbackMessage
        /\ response.status = 200
        /\ response.error # "Answer generation failed"
        /\ response.answer = FallbackMessage
        /\ response.context = searchCall.chunks

\* a query whose generation call raised, answered with the fallback
C7_Witness ==
    /\ GenerationFailed
    /\ genCall.model.kind = "raise"
    /\ response.status = 200
    /\ response.answer = FallbackMessage
    /\ Len(response.context) = n_neighbors

\* a lower bound of the token count of a text: a tokenizer gives every
\* whitespace-delimited word at least one token
RECURSIVE MinTokens(_)
MinTokens(texts) ==
    IF texts = <<>> THEN 0
    ELSE Len(split(Head(texts))) + MinTokens(Tail(texts))

\* C10: the chunks of the context handed to the answer generator never sum
\* to more than the retrieval budget of 500 tokens.
C10_ContextWithinBudget ==
    (genCall.outcome # "none" /\ searchCall.outcome = "return") =>
        MinTokens(searchCall.chunks) <= DefaultMaxTokens

====
